---- MODULE Spec2Model ----
(***************************************************************************)
(* Model of the GHZ-asymmetry control campaigns:                           *)
(*   quantum_campaign_b3.py       (DualAncilla,   8-wire circuit)          *)
(*   quantum_campaign_control.py  (TripleAncilla, 9-wire circuit)          *)
(*                                                                         *)
(* Three specifications share the module:                                  *)
(*   Spec         the campaign run of main(): startup, submission loop,    *)
(*                collection loop, ledger.                                 *)
(*   SpecAnalyze  analyze_results run outcome by outcome on a bounded      *)
(*                family of count distributions.                           *)
(*   SpecBuild    the circuit builders run operation by operation.         *)
(*                                                                         *)
(* Conventions: Python lists are sequences (1-based here, so Python's      *)
(* x[i] is x[i+1]); a bitstring is a sequence of one-character strings;    *)
(* a float that is a ratio of two integers is the record [num, den].       *)
(***************************************************************************)
EXTENDS Integers, Sequences, FiniteSets, TLC

(***************************************************************************)
(* Configuration                                                           *)
(***************************************************************************)
SHOTS == 8192

\* REPETITIONS is 5 in both files; the model runs the loops with a smaller
\* number of repetitions per topology.
REPETITIONS == 2

\* At most MaxFaults off-nominal collaborator answers in one campaign run
\* (failed connection, failed optimization, failed submission, failed wait,
\* failed extraction, a count distribution other than the nominal one, a job
\* finished by the backend ahead of an earlier-submitted one).
MaxFaults == 2

\* Largest count of one outcome, and largest number of outcomes, in the
\* distributions SpecAnalyze enumerates.
MaxCount == 2
MaxOutcomes == 2

Labels == <<"A", "B", "C", "D">>

TOPOLOGIES ==
  [A |-> [ghz_indices     |-> <<0, 1, 2, 3, 4, 5>>,
          local_a_indices |-> <<0, 1, 2>>,
          local_b_indices |-> <<3, 4, 5>>],
   B |-> [ghz_indices     |-> <<1, 2, 3, 4, 5, 0>>,
          local_a_indices |-> <<1, 2, 3>>,
          local_b_indices |-> <<4, 5, 0>>],
   C |-> [ghz_indices     |-> <<2, 3, 4, 5, 0, 1>>,
          local_a_indices |-> <<2, 3, 4>>,
          local_b_indices |-> <<5, 0, 1>>],
   D |-> [ghz_indices     |-> <<0, 1, 2, 3, 4, 5>>,
          local_a_indices |-> <<0, 2, 4>>,
          local_b_indices |-> <<1, 3, 5>>]]

Variants == {"DualAncilla", "TripleAncilla"}

\* Register width of the circuit of each variant: QuantumCircuit(8, 8) and
\* QuantumCircuit(9, 9); also the width of the '08b' / '09b' formats.
Width(v) == IF v = "DualAncilla" THEN 8 ELSE 9

\* ANC_GLOBAL / ANC_LOCAL of b3's main, and the literals 6, 7, 8 of control.
ANC_GLOBAL == 6
ANC_LOCAL == 7
ANC_LOCAL_B == 8

(***************************************************************************)
(* Sequence helpers                                                        *)
(***************************************************************************)
Range(s) == {s[k] : k \in 1..Len(s)}

\* s[:n]
Take(s, n) == SubSeq(s, 1, IF n < Len(s) THEN n ELSE Len(s))

\* The reversal left out: the string is read most significant bit first.
ReverseOmitted(s) == s

\* The reversal off by one position: the last character lands at qubit 1.
ReverseRotated(s) == [k \in 1..Len(s) |-> s[((Len(s) - k + 1) % Len(s)) + 1]]

\* s[::-1]
Reverse(s) == [k \in 1..Len(s) |-> s[Len(s) + 1 - k]]

\* s.count(x)
Count(s, x) == Cardinality({k \in 1..Len(s) : s[k] = x})

RECURSIVE Repeat(_, _)
Repeat(ch, n) == IF n <= 0 THEN <<>> ELSE <<ch>> \o Repeat(ch, n - 1)

\* Binary digits of n >= 0, most significant first ("0" for 0).
RECURSIVE BinDigits(_)
BinDigits(n) ==
  IF n < 2 THEN <<IF n = 1 THEN "1" ELSE "0">>
  ELSE BinDigits(n \div 2) \o <<IF n % 2 = 1 THEN "1" ELSE "0">>

\* format(n, '0{w}b'): zero-padded on the left to at least w characters.
FormatBin(n, w) == Repeat("0", w - Len(BinDigits(n))) \o BinDigits(n)

\* state.replace(" ", "")
StripSpaces(s) == SelectSeq(s, LAMBDA ch : ch # " ")

(***************************************************************************)
(* Outcome keys and count distributions.                                   *)
(* A key is an int (kind "int", its value in val) or a string (kind "str",  *)
(* its characters in chars); the field a kind does not use is left empty.  *)
(* A distribution is the sequence of the dict's (key, count) items in      *)
(* iteration order, keys pairwise distinct.                                *)
(***************************************************************************)
IntKey(n) == [kind |-> "int", val |-> n, chars |-> <<>>]
StrKey(s) == [kind |-> "str", val |-> 0, chars |-> s]

Keys(cnts) == [k \in 1..Len(cnts) |-> cnts[k].state]

RECURSIVE SumCounts(_)
SumCounts(cnts) ==
  IF cnts = <<>> THEN 0 ELSE Head(cnts).c + SumCounts(Tail(cnts))

\* The normalisation of one key: format for an int, strip for a string.
Bits(state, w) ==
  IF state.kind = "int" THEN FormatBin(state.val, w)
  ELSE StripSpaces(state.chars)

BitsRev(state, w) == Reverse(Bits(state, w))

(***************************************************************************)
(* One parity check of analyze_results on a reversed bitstring.            *)
(***************************************************************************)
\* bits_rev[i] raises IndexError when i is past the end.
IndexOK(bits_rev, i) == i + 1 <= Len(bits_rev)

\* [bits_rev[i] for i in nodes]
Measured(bits_rev, nodes) == [k \in 1..Len(nodes) |-> bits_rev[nodes[k] + 1]]

\* The number of ones taken for the parity, not reduced modulo 2.
ParityNotReduced(bits_rev, nodes) == Count(Measured(bits_rev, nodes), "1")

\* measured.count("1") % 2
Parity(bits_rev, nodes) == Count(Measured(bits_rev, nodes), "1") % 2

\* int(bits_rev[anc]) for a character "0" or "1"
BitValue(ch) == IF ch = "1" THEN 1 ELSE 0

\* The check of one group raises (IndexError) on a string too short for it.
CheckRaises(bits_rev, nodes, anc) ==
  \/ \E k \in 1..Len(nodes) : ~IndexOK(bits_rev, nodes[k])
  \/ ~IndexOK(bits_rev, anc)

\* The ancilla bit left unread: a group counts as agreeing when its data
\* parity is even.
AgreesIgnoringAncilla(bits_rev, nodes, anc) == Parity(bits_rev, nodes) = 0

\* measured_ancilla == computed
Agrees(bits_rev, nodes, anc) ==
  BitValue(bits_rev[anc + 1]) = Parity(bits_rev, nodes)

(***************************************************************************)
(* Floats that are ratios of integers.  G = global_ok / total is kept as   *)
(* [num |-> global_ok, den |-> total]; the int 0 of the total == 0 return  *)
(* is Zero.                                                                *)
(***************************************************************************)
Ratio(n, d) == [num |-> n, den |-> d]
Zero == Ratio(0, 1)
IsZero(r) == "num" \in DOMAIN r /\ r.num = 0
IsOne(r) == "num" \in DOMAIN r /\ r.num = r.den
Abs(x) == IF x < 0 THEN -x ELSE x

\* LA - LB with its sign kept.
SignedDiff(a, b) == Ratio(a.num - b.num, a.den)

\* abs(LA - LB) of two ratios over the same total
AbsDiff(a, b) == Ratio(Abs(a.num - b.num), a.den)

\* probs: p = c / total for every outcome with p > 0, in iteration order
Probs(cnts, tot) ==
  LET pos == SelectSeq(cnts, LAMBDA o : o.c > 0)
  IN  [k \in 1..Len(pos) |-> Ratio(pos[k].c, tot)]

\* -sum(pr * log2(pr)): 0 when every listed probability is 1, otherwise the
\* sum is kept as a term over the probabilities it is taken of.
Entropy(ps) ==
  IF \A k \in 1..Len(ps) : ps[k].num = ps[k].den THEN Zero
  ELSE [neg_sum_p_log2_p |-> ps]

(***************************************************************************)
(* Parity groups checked by the two analyzers, in the order of the checks. *)
(***************************************************************************)
\* The global group handed on in its own order, local-A not moved to the front.
get_ordered_data_unsorted(config) == config.ghz_indices

\* get_ordered_data: local-A first, then the rest of the global group.
get_ordered_data(config) ==
  LET ghz == config.ghz_indices
      loc_a == config.local_a_indices
      remaining == SelectSeq(ghz, LAMBDA x : x \notin Range(loc_a))
  IN  loc_a \o remaining

\* topology_map built in b3's main for one topology.
TopologyMap(config) ==
  [data |-> get_ordered_data(config),
   anc_global |-> ANC_GLOBAL,
   anc_local |-> ANC_LOCAL]

\* The local check taken on the last three of data_qubits, not the first.
GroupsB3LocalFromTheEnd(data_qubits, anc_global, anc_local) ==
  <<[nodes |-> data_qubits, anc |-> anc_global],
    [nodes |-> SubSeq(data_qubits, Len(data_qubits) - 2, Len(data_qubits)),
     anc |-> anc_local]>>

\* b3: global check on data_qubits, local check on data_qubits[:3].
GroupsB3(data_qubits, anc_global, anc_local) ==
  <<[nodes |-> data_qubits, anc |-> anc_global],
    [nodes |-> Take(data_qubits, 3), anc |-> anc_local]>>

\* control: ghz_indices vs bit 6, local_a vs bit 7, local_b vs bit 8.
GroupsControl(config) ==
  <<[nodes |-> config.ghz_indices, anc |-> ANC_GLOBAL],
    [nodes |-> config.local_a_indices, anc |-> ANC_LOCAL],
    [nodes |-> config.local_b_indices, anc |-> ANC_LOCAL_B]>>

\* One iteration of the loop over counts.items() raises.
OutcomeRaises(state, groups, w) ==
  \E g \in 1..Len(groups) :
     CheckRaises(BitsRev(state, w), groups[g].nodes, groups[g].anc)

\* An agreeing outcome counted twice.
OkDeltaDoubled(o, group, w) ==
  IF Agrees(BitsRev(o.state, w), group.nodes, group.anc) THEN 2 * o.c ELSE 0

\* What one iteration adds to the ok counter of one group.
OkDelta(o, group, w) ==
  IF Agrees(BitsRev(o.state, w), group.nodes, group.anc) THEN o.c ELSE 0

RECURSIVE OkCount(_, _, _)
OkCount(cnts, group, w) ==
  IF cnts = <<>> THEN 0
  ELSE OkDelta(Head(cnts), group, w) + OkCount(Tail(cnts), group, w)

Return(t) == [raised |-> FALSE, value |-> t]
Raise == [raised |-> TRUE, value |-> <<>>]

(***************************************************************************)
(* analyze_results of quantum_campaign_control.py                          *)
(***************************************************************************)
analyze_results_control(cnts, config) ==
  LET tot == SumCounts(cnts)
      groups == GroupsControl(config)
      w == Width("TripleAncilla")
  IN  IF tot = 0 THEN Return(<<Zero, Zero, Zero, Zero, Zero>>)
      ELSE IF \E k \in 1..Len(cnts) : OutcomeRaises(cnts[k].state, groups, w)
      THEN Raise
      ELSE LET G  == Ratio(OkCount(cnts, groups[1], w), tot)
               LA == Ratio(OkCount(cnts, groups[2], w), tot)
               LB == Ratio(OkCount(cnts, groups[3], w), tot)
               AI == AbsDiff(LA, LB)
           IN  Return(<<G, LA, LB, AI, Entropy(Probs(cnts, tot))>>)

(***************************************************************************)
(* analyze_results of quantum_campaign_b3.py                               *)
(***************************************************************************)
analyze_results_b3(cnts, data_qubits, anc_global, anc_local) ==
  LET tot == SumCounts(cnts)
      groups == GroupsB3(data_qubits, anc_global, anc_local)
      w == Width("DualAncilla")
  IN  IF tot = 0 THEN Return(<<Zero, Zero, Zero>>)
      ELSE IF \E k \in 1..Len(cnts) : OutcomeRaises(cnts[k].state, groups, w)
      THEN Raise
      ELSE LET G  == Ratio(OkCount(cnts, groups[1], w), tot)
               LA == Ratio(OkCount(cnts, groups[2], w), tot)
           IN  Return(<<G, LA>>)

\* The analyzer of a variant applied to the job of one topology label.
Analyze(v, label, cnts) ==
  IF v = "DualAncilla"
  THEN LET tm == TopologyMap(TOPOLOGIES[label])
       IN  analyze_results_b3(cnts, tm.data, tm.anc_global, tm.anc_local)
  ELSE analyze_results_control(cnts, TOPOLOGIES[label])

(***************************************************************************)
(* Circuit programs.  An operation is [gate, qubits, clbits].              *)
(***************************************************************************)
\* A controlled-NOT from a data qubit to the next data qubit (the ladder of
\* an entangling circuit) instead of to the ancilla.
CXLadder(c, t) == [gate |-> "cx", qubits |-> <<c, (c + 1) % 6>>, clbits |-> <<>>]

H(q) == [gate |-> "h", qubits |-> <<q>>, clbits |-> <<>>]

CX(c, t) == [gate |-> "cx", qubits |-> <<c, t>>, clbits |-> <<>>]
Measure(q, c) == [gate |-> "measure", qubits |-> <<q>>, clbits |-> <<c>>]

\* for q in nodes: qc.h(q)
HLoop(nodes) == [k \in 1..Len(nodes) |-> H(nodes[k])]

\* for q in nodes: qc.cx(q, anc)
CXLoop(nodes, anc) == [k \in 1..Len(nodes) |-> CX(nodes[k], anc)]

\* qc.measure(i, i) for i in range(n)
MeasureAll(n) == [k \in 1..n |-> Measure(k - 1, k - 1)]

\* classical_control_circuit of quantum_campaign_b3.py
classical_control_circuit(topology_map) ==
  LET data_qubits == topology_map.data
      anc_global == topology_map.anc_global
      anc_local == topology_map.anc_local
  IN  HLoop(data_qubits)
      \o CXLoop(data_qubits, anc_global)
      \o CXLoop(Take(data_qubits, 3), anc_local)
      \o MeasureAll(8)

\* build_circuit of quantum_campaign_control.py
build_circuit(config) ==
  LET ghz_nodes == config.ghz_indices
      loc_a_nodes == config.local_a_indices
      loc_b_nodes == config.local_b_indices
  IN  HLoop(ghz_nodes)
      \o CXLoop(ghz_nodes, 6)
      \o CXLoop(loc_a_nodes, 7)
      \o CXLoop(loc_b_nodes, 8)
      \o MeasureAll(9)

\* What the builder of a variant is handed for one topology label.
BuilderInput(v, label) ==
  IF v = "DualAncilla" THEN TopologyMap(TOPOLOGIES[label]) ELSE TOPOLOGIES[label]

\* The circuit a campaign of variant v builds for one topology label.
Build(v, label) ==
  IF v = "DualAncilla"
  THEN classical_control_circuit(BuilderInput(v, label))
  ELSE build_circuit(BuilderInput(v, label))

(***************************************************************************)
(* Ledger lines                                                            *)
(***************************************************************************)
HEADER ==
  <<"backend", "run_label", "job_id", "global_stability (%)", "local_A (%)",
    "local_B (%)", "asymmetry (%)", "shots">>

HeaderLine == [kind |-> "header", cells |-> HEADER]

\* f"{x*100:.2f}" of a ratio x, as the number of hundredths the text shows
\* ("75.00" is 7500): x * 10000 rounded to the nearest integer, ties to even.
Fixed2(r) ==
  LET n == r.num * 10000
      q == n \div r.den
      rem2 == 2 * (n % r.den)
  IN  IF rem2 > r.den \/ (rem2 = r.den /\ q % 2 = 1) THEN q + 1 ELSE q

\* The literal "0.00" of the b3 row.
Literal000 == Fixed2(Zero)

BackendName == "backend.name"

DataLine(cells) == [kind |-> "data", cells |-> cells]

\* row of quantum_campaign_control.py from the unpacked G, LA, LB, AI
RowControl(run_label, job_id, t) ==
  DataLine(<<BackendName, run_label, job_id,
             Fixed2(t[1]), Fixed2(t[2]), Fixed2(t[3]), Fixed2(t[4]), SHOTS>>)

\* The b3 row with computed values in the local_B and asymmetry columns.
RowB3Computed(run_label, job_id, t) ==
  DataLine(<<BackendName, run_label, job_id,
             Fixed2(t[1]), Fixed2(t[2]), Fixed2(t[2]), Fixed2(t[1]), SHOTS>>)

\* row of quantum_campaign_b3.py from the unpacked G, LA
RowB3(run_label, job_id, t) ==
  DataLine(<<BackendName, run_label, job_id,
             Fixed2(t[1]), Fixed2(t[2]), Literal000, Literal000, SHOTS>>)

\* Number of targets of the tuple unpacking of the analyzer's result:
\* "G, LA = ..." in b3, "G, LA, LB, AI, H = ..." in control.
UnpackTargets(v) == IF v = "DualAncilla" THEN 2 ELSE 5

\* The unpacking raises ValueError when the tuple has another length.
UnpackRaises(v, t) == Len(t) # UnpackTargets(v)

Row(v, run_label, job_id, t) ==
  IF v = "DualAncilla" THEN RowB3(run_label, job_id, t)
  ELSE RowControl(run_label, job_id, t)

(***************************************************************************)
(* State                                                                   *)
(***************************************************************************)
VARIABLES
  \* --- campaign run (main) ---
  variant,         \* which of the two programs runs
  pc,              \* "startup", "submit", "collect", "done", "aborted", "crashed"
  label_i,         \* position of the outer submission loop in Labels
  rep,             \* i of the inner submission loop, 1..REPETITIONS
  submitted_jobs,  \* the list of job records
  coll_i,          \* position of the collection loop in submitted_jobs
  ledger_exists,   \* os.path.isfile(CAMPAIGN_LOG_FILE)
  ledger,          \* the lines of the ledger file
  attempts,        \* log: one entry per iteration of the submission loop
  collected,       \* log: one entry per iteration of the collection loop
  completed,       \* job ids the backend has finished executing
  faults,          \* off-nominal collaborator answers so far
  \* --- one call of analyze_results ---
  an_pc,           \* "idle", "start", "loop", "returned", "raised"
  an_variant, an_label, counts,
  total, an_i, global_ok, localA_ok, localB_ok, probs, an_result,
  \* --- one call of the circuit builder ---
  b_pc,            \* "idle", "h", "cx_global", "cx_localA", "cx_localB", "measure", "done"
  b_variant, b_label, b_k, qc

campVars == <<variant, pc, label_i, rep, submitted_jobs, coll_i, ledger_exists,
              ledger, attempts, collected, completed, faults>>
anVars == <<an_pc, an_variant, an_label, counts, total, an_i, global_ok,
            localA_ok, localB_ok, probs, an_result>>
buildVars == <<b_pc, b_variant, b_label, b_k, qc>>
vars == <<campVars, anVars, buildVars>>

CampIdle ==
  /\ variant = "DualAncilla" /\ pc = "idle" /\ label_i = 1 /\ rep = 1
  /\ submitted_jobs = <<>> /\ coll_i = 1 /\ ledger_exists = FALSE
  /\ ledger = <<>> /\ attempts = <<>> /\ collected = <<>>
  /\ completed = {} /\ faults = 0

AnIdle ==
  /\ an_pc = "idle" /\ an_variant = "DualAncilla" /\ an_label = "A"
  /\ counts = <<>> /\ total = 0 /\ an_i = 0 /\ global_ok = 0 /\ localA_ok = 0
  /\ localB_ok = 0 /\ probs = <<>> /\ an_result = Raise

BuildIdle ==
  /\ b_pc = "idle" /\ b_variant = "DualAncilla" /\ b_label = "A"
  /\ b_k = 0 /\ qc = <<>>

(***************************************************************************)
(* Campaign run: main() of both files                                      *)
(***************************************************************************)
\* A data row left in the ledger file by an earlier campaign.
OldRow ==
  DataLine(<<BackendName, "A", 0, Fixed2(Ratio(1, 2)), Fixed2(Ratio(1, 2)),
             Literal000, Literal000, SHOTS>>)

\* Count distributions the result collaborator hands back in a campaign run.
\* The nominal one has, per topology, outcomes that agree and outcomes that
\* disagree with each parity check.
NominalCounts(v) ==
  <<[state |-> StrKey(FormatBin(0, Width(v))), c |-> 2],
    [state |-> IntKey(8), c |-> 1],
    [state |-> IntKey(128), c |-> 1]>>

EmptyCounts == <<>>
ShortKeyCounts == <<[state |-> StrKey(<<"1", "0", "1">>), c |-> 1]>>
AllAgreeCounts(v) == <<[state |-> StrKey(FormatBin(0, Width(v))), c |-> 4]>>

OffNominalCounts(v) == {EmptyCounts, ShortKeyCounts, AllAgreeCounts(v)}

CampInit ==
  /\ variant \in Variants
  /\ pc = "startup"
  /\ label_i = 1
  /\ rep = 1
  /\ submitted_jobs = <<>>
  /\ coll_i = 1
  /\ ledger_exists \in BOOLEAN
  /\ ledger = IF ledger_exists THEN <<HeaderLine, OldRow>> ELSE <<>>
  /\ attempts = <<>>
  /\ collected = <<>>
  /\ completed = {}
  /\ faults = 0

Terminated == pc \in {"done", "aborted", "crashed"}

\* control only: the module-level check raises ValueError before main runs.
CredentialsMissing ==
  /\ pc = "startup" /\ variant = "TripleAncilla" /\ faults < MaxFaults
  /\ pc' = "crashed"
  /\ faults' = faults + 1
  /\ UNCHANGED <<variant, label_i, rep, submitted_jobs, coll_i, ledger_exists,
                 ledger, attempts, collected, completed>>

\* The missing backend not tested: main goes on to the submission loop.
ConnectFailsIgnored ==
  /\ pc = "startup" /\ faults < MaxFaults
  /\ pc' = "submit"
  /\ faults' = faults + 1
  /\ UNCHANGED <<variant, label_i, rep, submitted_jobs, coll_i, ledger_exists,
                 ledger, attempts, collected, completed>>

\* get_backend: both channels fail, (None, None) comes back and main returns.
ConnectFails ==
  /\ pc = "startup" /\ faults < MaxFaults
  /\ pc' = "aborted"
  /\ faults' = faults + 1
  /\ UNCHANGED <<variant, label_i, rep, submitted_jobs, coll_i, ledger_exists,
                 ledger, attempts, collected, completed>>

\* get_backend: no priority backend and least_busy raises; nothing catches it.
NoBackend ==
  /\ pc = "startup" /\ faults < MaxFaults
  /\ pc' = "crashed"
  /\ faults' = faults + 1
  /\ UNCHANGED <<variant, label_i, rep, submitted_jobs, coll_i, ledger_exists,
                 ledger, attempts, collected, completed>>

\* The ledger file opened for writing whether it exists or not: what it held
\* is lost and the header written again.
StartupOkRewrites ==
  /\ pc = "startup"
  /\ ledger' = <<HeaderLine>>
  /\ ledger_exists' = TRUE
  /\ pc' = "submit"
  /\ UNCHANGED <<variant, label_i, rep, submitted_jobs, coll_i, attempts,
                 collected, completed, faults>>

\* get_backend returns a backend; the ledger file is created with its header
\* when it does not exist; the submission loop starts.
StartupOk ==
  /\ pc = "startup"
  /\ ledger' = IF ledger_exists THEN ledger ELSE <<HeaderLine>>
  /\ ledger_exists' = TRUE
  /\ pc' = "submit"
  /\ UNCHANGED <<variant, label_i, rep, submitted_jobs, coll_i, attempts,
                 collected, completed, faults>>

\* The outer loop left after its first topology.
NextPairLeavesEarly ==
  IF rep < REPETITIONS
  THEN /\ rep' = rep + 1 /\ label_i' = label_i /\ pc' = "submit"
  ELSE /\ rep' = rep /\ label_i' = label_i /\ pc' = "collect"

\* The loops "for run_label ... for i in range(1, REPETITIONS + 1)" move on.
NextPair ==
  IF rep < REPETITIONS
  THEN /\ rep' = rep + 1 /\ label_i' = label_i /\ pc' = "submit"
  ELSE IF label_i < Len(Labels)
  THEN /\ rep' = 1 /\ label_i' = label_i + 1 /\ pc' = "submit"
  ELSE /\ rep' = rep /\ label_i' = label_i /\ pc' = "collect"

Attempt(outcome, job_id, slept) ==
  [run_label |-> Labels[label_i], rep |-> rep, outcome |-> outcome,
   job_id |-> job_id, slept |-> slept]

\* The job record appended to submitted_jobs.
JobRecord(job_id) ==
  IF variant = "DualAncilla"
  THEN [job_id |-> job_id, run_label |-> Labels[label_i],
        config |-> TOPOLOGIES[Labels[label_i]],
        topology_map |-> TopologyMap(TOPOLOGIES[Labels[label_i]]),
        rep |-> rep]
  ELSE [job_id |-> job_id, run_label |-> Labels[label_i],
        config |-> TOPOLOGIES[Labels[label_i]],
        rep |-> rep]

\* The identifier the execution collaborator gives the next job.
NewJobId == Len(attempts) + 1

\* transpile raises: the call is outside the try, main ends with the exception.
TranspileFails ==
  /\ pc = "submit" /\ faults < MaxFaults
  /\ pc' = "crashed"
  /\ attempts' = Append(attempts, Attempt("transpile_failed", 0, FALSE))
  /\ faults' = faults + 1
  /\ UNCHANGED <<variant, label_i, rep, submitted_jobs, coll_i, ledger_exists,
                 ledger, collected, completed>>

\* The submission failure not caught: main ends with the exception.
SubmitFailsUncaught ==
  /\ pc = "submit" /\ faults < MaxFaults
  /\ attempts' = Append(attempts, Attempt("submit_failed", 0, FALSE))
  /\ faults' = faults + 1
  /\ pc' = "crashed"
  /\ UNCHANGED <<variant, label_i, rep, submitted_jobs, coll_i, ledger_exists,
                 ledger, collected, completed>>

\* sampler.run or job.job_id raises: caught, logged, next pair.
SubmitFails ==
  /\ pc = "submit" /\ faults < MaxFaults
  /\ attempts' = Append(attempts, Attempt("submit_failed", 0, FALSE))
  /\ faults' = faults + 1
  /\ NextPair
  /\ UNCHANGED <<variant, submitted_jobs, coll_i, ledger_exists, ledger,
                 collected, completed>>

\* The job is submitted and recorded, and the loop goes on without sleeping.
SubmitOkNoDelay ==
  /\ pc = "submit"
  /\ submitted_jobs' = Append(submitted_jobs, JobRecord(NewJobId))
  /\ attempts' = Append(attempts, Attempt("submitted", NewJobId, FALSE))
  /\ NextPair
  /\ UNCHANGED <<variant, coll_i, ledger_exists, ledger, collected, completed,
                 faults>>

\* The job is submitted, recorded, and the loop sleeps before the next pair.
SubmitOk ==
  /\ pc = "submit"
  /\ submitted_jobs' = Append(submitted_jobs, JobRecord(NewJobId))
  /\ attempts' = Append(attempts, Attempt("submitted", NewJobId, TRUE))
  /\ NextPair
  /\ UNCHANGED <<variant, coll_i, ledger_exists, ledger, collected, completed,
                 faults>>

\* The job records visited from the last one back.
EntryFromTheEnd == submitted_jobs[Len(submitted_jobs) + 1 - coll_i]

\* The entry the collection loop stands at: for entry in submitted_jobs.
Entry == submitted_jobs[coll_i]

CollectLog(entry, waited, extracted, analysis, row) ==
  [job_id |-> entry.job_id, run_label |-> entry.run_label, rep |-> entry.rep,
   waited |-> waited, extracted |-> extracted, analysis |-> analysis,
   row |-> row, done_before_wait |-> entry.job_id \in completed]

\* job.result() blocks until the backend has finished the job.
WaitEnds == completed' = completed \cup {Entry.job_id}

\* The backend finishes a job submitted after the one the loop stands at:
\* it executes jobs on its own schedule, and main only sees the blocking wait.
BackendFinishesLater ==
  /\ pc = "collect" /\ faults < MaxFaults
  /\ \E k \in (coll_i + 1)..Len(submitted_jobs) :
       /\ submitted_jobs[k].job_id \notin completed
       /\ completed' = completed \cup {submitted_jobs[k].job_id}
  /\ faults' = faults + 1
  /\ UNCHANGED <<variant, pc, label_i, rep, submitted_jobs, coll_i,
                 ledger_exists, ledger, attempts, collected>>

\* The failed wait not caught: main ends with the exception.
WaitFailsUncaught ==
  /\ pc = "collect" /\ coll_i <= Len(submitted_jobs) /\ faults < MaxFaults
  /\ collected' = Append(collected,
                         CollectLog(Entry, FALSE, FALSE, "not_run", FALSE))
  /\ pc' = "crashed"
  /\ WaitEnds
  /\ faults' = faults + 1
  /\ UNCHANGED <<variant, label_i, rep, submitted_jobs, coll_i, ledger_exists,
                 ledger, attempts>>

\* job.result() raises: caught by the outer except, next entry.
WaitFails ==
  /\ pc = "collect" /\ coll_i <= Len(submitted_jobs) /\ faults < MaxFaults
  /\ collected' = Append(collected,
                         CollectLog(Entry, FALSE, FALSE, "not_run", FALSE))
  /\ coll_i' = coll_i + 1
  /\ WaitEnds
  /\ faults' = faults + 1
  /\ UNCHANGED <<variant, pc, label_i, rep, submitted_jobs, ledger_exists,
                 ledger, attempts>>

\* The extraction of the counts raises: caught by the inner except, continue.
ExtractFails ==
  /\ pc = "collect" /\ coll_i <= Len(submitted_jobs) /\ faults < MaxFaults
  /\ collected' = Append(collected,
                         CollectLog(Entry, TRUE, FALSE, "not_run", FALSE))
  /\ coll_i' = coll_i + 1
  /\ WaitEnds
  /\ faults' = faults + 1
  /\ UNCHANGED <<variant, pc, label_i, rep, submitted_jobs, ledger_exists,
                 ledger, attempts>>

\* Everything the result collaborator may hand back in a campaign run.
CampaignCounts(v) == {NominalCounts(v)} \cup OffNominalCounts(v)

\* The values of the two analyzers on the arguments a campaign run can pass
\* them, tabulated once: argument :> value, for every argument.
RECURSIVE RowB3Table(_, _)
RowB3Table(tm, cs) ==
  IF cs = <<>> THEN <<>>
  ELSE (Head(cs) :> analyze_results_b3(Head(cs), tm.data, tm.anc_global,
                                       tm.anc_local))
       @@ RowB3Table(tm, Tail(cs))

RECURSIVE RowControlTable(_, _)
RowControlTable(config, cs) ==
  IF cs = <<>> THEN <<>>
  ELSE (Head(cs) :> analyze_results_control(Head(cs), config))
       @@ RowControlTable(config, Tail(cs))

CampaignCountsSeq(v) ==
  <<NominalCounts(v), EmptyCounts, ShortKeyCounts, AllAgreeCounts(v)>>

RECURSIVE B3Table(_)
B3Table(ls) ==
  IF ls = <<>> THEN <<>>
  ELSE (TopologyMap(TOPOLOGIES[Head(ls)])
          :> RowB3Table(TopologyMap(TOPOLOGIES[Head(ls)]),
                        CampaignCountsSeq("DualAncilla")))
       @@ B3Table(Tail(ls))

RECURSIVE ControlTable(_)
ControlTable(ls) ==
  IF ls = <<>> THEN <<>>
  ELSE (TOPOLOGIES[Head(ls)]
          :> RowControlTable(TOPOLOGIES[Head(ls)],
                             CampaignCountsSeq("TripleAncilla")))
       @@ ControlTable(Tail(ls))

TableB3 == B3Table(Labels)
TableControl == ControlTable(Labels)

\* The analyzer call of the collection loop, on what the job record holds:
\* analyze_results(counts, topo_map["data"], topo_map["anc_global"],
\* topo_map["anc_local"]) in b3, analyze_results(counts, config) in control.
AnalyzeEntry(v, entry, cnts) ==
  IF v = "DualAncilla"
  THEN TableB3[entry.topology_map][cnts]
  ELSE TableControl[entry.config][cnts]

\* The rest of one collection iteration once the counts are extracted:
\* analysis, unpacking, row, append; any exception is caught by the outer
\* except and no row is written.
Process(cnts) ==
  LET res == AnalyzeEntry(variant, Entry, cnts)
      unpacked == ~res.raised /\ ~UnpackRaises(variant, res.value)
      analysis == IF res.raised THEN "raised"
                  ELSE IF unpacked THEN "returned" ELSE "returned_unpack_failed"
  IN  /\ collected' = Append(collected,
                             CollectLog(Entry, TRUE, TRUE, analysis, unpacked))
      /\ ledger' = IF unpacked
                   THEN Append(ledger, Row(variant, Entry.run_label,
                                           Entry.job_id, res.value))
                   ELSE ledger
      /\ coll_i' = coll_i + 1
      /\ WaitEnds

\* The job returns the nominal distribution.
CollectNominal ==
  /\ pc = "collect" /\ coll_i <= Len(submitted_jobs)
  /\ Process(NominalCounts(variant))
  /\ UNCHANGED <<variant, pc, label_i, rep, submitted_jobs, ledger_exists,
                 attempts, faults>>

\* The job returns another distribution.
CollectOffNominal ==
  /\ pc = "collect" /\ coll_i <= Len(submitted_jobs) /\ faults < MaxFaults
  /\ \E cnts \in OffNominalCounts(variant) : Process(cnts)
  /\ faults' = faults + 1
  /\ UNCHANGED <<variant, pc, label_i, rep, submitted_jobs, ledger_exists,
                 attempts>>

\* The collection loop is exhausted; main prints the closing line and returns.
Finish ==
  /\ pc = "collect" /\ coll_i > Len(submitted_jobs)
  /\ pc' = "done"
  /\ UNCHANGED <<variant, label_i, rep, submitted_jobs, coll_i, ledger_exists,
                 ledger, attempts, collected, completed, faults>>

CampNext ==
  \/ CredentialsMissing \/ ConnectFails \/ NoBackend \/ StartupOk
  \/ TranspileFails \/ SubmitFails \/ SubmitOk
  \/ BackendFinishesLater
  \/ WaitFails \/ ExtractFails \/ CollectNominal \/ CollectOffNominal
  \/ Finish

Init == CampInit /\ AnIdle /\ BuildIdle

Next == CampNext /\ UNCHANGED <<anVars, buildVars>>

Spec == Init /\ [][Next]_vars

\* The scheduling of main is a sequential program: a step is taken whenever
\* one is possible.
FairSpec == Spec /\ WF_vars(Next)

(***************************************************************************)
(* One call of analyze_results, outcome by outcome                         *)
(***************************************************************************)
\* Outcome keys the analyzer runs are drawn from, for the register width of
\* the variant: an int and strings, data and ancilla bits set in several
\* combinations, a string with a separator, a string shorter than the width.
AllZeroKey(v) == StrKey(FormatBin(0, Width(v)))
DataOnesKey(v) == StrKey(FormatBin(63, Width(v)))
HighOnesKey(v) == StrKey(FormatBin(2 ^ Width(v) - 8, Width(v)))
SpacedKey(v) ==
  StrKey(<<Head(FormatBin(66, Width(v))), " ">> \o Tail(FormatBin(66, Width(v))))
ShortKey == StrKey(<<"1", "0", "1">>)

AnKeys(v) ==
  {IntKey(0), IntKey(193), DataOnesKey(v), HighOnesKey(v), SpacedKey(v),
   ShortKey}

Outcomes(v) == [state : AnKeys(v), c : 0..MaxCount]

DistinctKeys(d) ==
  \A j, k \in 1..Len(d) : j # k => d[j].state # d[k].state

BoundedDists(v) ==
  {d \in UNION {[1..m -> Outcomes(v)] : m \in 0..MaxOutcomes} : DistinctKeys(d)}

\* The distributions of the spec's scenarios, at the width of the variant.
Scenario1(v) == <<[state |-> AllZeroKey(v), c |-> 8192]>>
Scenario2(v) ==
  <<[state |-> AllZeroKey(v), c |-> 4096],
    [state |-> HighOnesKey(v), c |-> 4096]>>
Scenario2DataOnes(v) ==
  <<[state |-> AllZeroKey(v), c |-> 4096],
    [state |-> DataOnesKey(v), c |-> 4096]>>

ScenarioDists(v) == {Scenario1(v), Scenario2(v), Scenario2DataOnes(v)}

AnDists(v) == BoundedDists(v) \cup ScenarioDists(v)

NoResult == [raised |-> FALSE, value |-> <<>>]

AnInit ==
  /\ an_pc = "start"
  /\ an_variant \in Variants
  /\ an_label \in Range(Labels)
  /\ counts \in AnDists(an_variant)
  /\ total = 0
  /\ an_i = 0
  /\ global_ok = 0
  /\ localA_ok = 0
  /\ localB_ok = 0
  /\ probs = <<>>
  /\ an_result = NoResult

\* The groups the running call checks.
AnGroups ==
  IF an_variant = "DualAncilla"
  THEN LET tm == TopologyMap(TOPOLOGIES[an_label])
       IN  GroupsB3(tm.data, tm.anc_global, tm.anc_local)
  ELSE GroupsControl(TOPOLOGIES[an_label])

\* The tuple of the "if total == 0: return" line.
ZeroReturn(v) ==
  IF v = "DualAncilla" THEN <<Zero, Zero, Zero>>
  ELSE <<Zero, Zero, Zero, Zero, Zero>>

\* total = sum(counts.values()); if total == 0: return zeros
AnalyzeEnter ==
  /\ an_pc = "start"
  /\ total' = SumCounts(counts)
  /\ IF total' = 0
     THEN /\ an_pc' = "returned"
          /\ an_result' = Return(ZeroReturn(an_variant))
     ELSE /\ an_pc' = "loop"
          /\ an_result' = an_result
  /\ UNCHANGED <<an_variant, an_label, counts, an_i, global_ok, localA_ok,
                 localB_ok, probs>>

\* One iteration of "for state, c in counts.items()" that does not raise.
AnalyzeOutcome ==
  /\ an_pc = "loop" /\ an_i < Len(counts)
  /\ LET o == counts[an_i + 1]
         w == Width(an_variant)
     IN  /\ ~OutcomeRaises(o.state, AnGroups, w)
         /\ probs' = IF an_variant = "TripleAncilla" /\ o.c > 0
                     THEN Append(probs, Ratio(o.c, total)) ELSE probs
         /\ global_ok' = global_ok + OkDelta(o, AnGroups[1], w)
         /\ localA_ok' = localA_ok + OkDelta(o, AnGroups[2], w)
         /\ localB_ok' = IF an_variant = "TripleAncilla"
                         THEN localB_ok + OkDelta(o, AnGroups[3], w)
                         ELSE localB_ok
  /\ an_i' = an_i + 1
  /\ UNCHANGED <<an_pc, an_variant, an_label, counts, total, an_result>>

\* One iteration that raises (IndexError): the call ends with the exception.
AnalyzeOutcomeRaises ==
  /\ an_pc = "loop" /\ an_i < Len(counts)
  /\ OutcomeRaises(counts[an_i + 1].state, AnGroups, Width(an_variant))
  /\ an_pc' = "raised"
  /\ an_result' = Raise
  /\ UNCHANGED <<an_variant, an_label, counts, total, an_i, global_ok,
                 localA_ok, localB_ok, probs>>

\* The division by total and the return after the loop.
AnalyzeReturn ==
  /\ an_pc = "loop" /\ an_i = Len(counts)
  /\ an_pc' = "returned"
  /\ an_result' =
       IF an_variant = "DualAncilla"
       THEN Return(<<Ratio(global_ok, total), Ratio(localA_ok, total)>>)
       ELSE Return(<<Ratio(global_ok, total), Ratio(localA_ok, total),
                     Ratio(localB_ok, total),
                     AbsDiff(Ratio(localA_ok, total), Ratio(localB_ok, total)),
                     Entropy(probs)>>)
  /\ UNCHANGED <<an_variant, an_label, counts, total, an_i, global_ok,
                 localA_ok, localB_ok, probs>>

AnNext == AnalyzeEnter \/ AnalyzeOutcome \/ AnalyzeOutcomeRaises \/ AnalyzeReturn

InitAnalyze == AnInit /\ CampIdle /\ BuildIdle

NextAnalyze == AnNext /\ UNCHANGED <<campVars, buildVars>>

SpecAnalyze == InitAnalyze /\ [][NextAnalyze]_vars

\* The call run step by step ends with the value of the analyzer operator.
AnalyzeStepsAgree ==
  an_pc \in {"returned", "raised"} =>
    an_result = Analyze(an_variant, an_label, counts)

(***************************************************************************)
(* One call of the circuit builder, operation by operation                 *)
(***************************************************************************)
BuildInit ==
  /\ b_pc = "h"
  /\ b_variant \in Variants
  /\ b_label \in Range(Labels)
  /\ b_k = 0
  /\ qc = <<>>

\* The sequences the loops of the running builder call iterate over:
\* data_qubits, data_qubits, data_qubits[:3] in classical_control_circuit;
\* ghz_nodes, ghz_nodes, loc_a_nodes, loc_b_nodes in build_circuit.
BuilderHNodes ==
  IF b_variant = "DualAncilla" THEN BuilderInput(b_variant, b_label).data
  ELSE BuilderInput(b_variant, b_label).ghz_indices

BuilderLocalANodes ==
  IF b_variant = "DualAncilla"
  THEN Take(BuilderInput(b_variant, b_label).data, 3)
  ELSE BuilderInput(b_variant, b_label).local_a_indices

BuilderLocalBNodes == BuilderInput(b_variant, b_label).local_b_indices

BuilderAncGlobal ==
  IF b_variant = "DualAncilla"
  THEN BuilderInput(b_variant, b_label).anc_global ELSE 6

BuilderAncLocal ==
  IF b_variant = "DualAncilla"
  THEN BuilderInput(b_variant, b_label).anc_local ELSE 7

\* One iteration of a loop over nodes that appends op; the loop after it
\* starts when nodes is exhausted.
LoopStep(nodes, op, after) ==
  /\ b_k < Len(nodes)
  /\ qc' = Append(qc, op)
  /\ IF b_k + 1 < Len(nodes)
     THEN /\ b_k' = b_k + 1 /\ b_pc' = b_pc
     ELSE /\ b_k' = 0 /\ b_pc' = after
  /\ UNCHANGED <<b_variant, b_label>>

\* for q in data_qubits: qc.h(q)
BuildH ==
  /\ b_pc = "h"
  /\ LoopStep(BuilderHNodes, H(BuilderHNodes[b_k + 1]), "cx_global")

\* for q in data_qubits: qc.cx(q, anc_global)
BuildCXGlobal ==
  /\ b_pc = "cx_global"
  /\ LoopStep(BuilderHNodes, CX(BuilderHNodes[b_k + 1], BuilderAncGlobal),
              "cx_localA")

\* for q in data_qubits[:3]: qc.cx(q, anc_local) / for q in loc_a_nodes
BuildCXLocalA ==
  /\ b_pc = "cx_localA"
  /\ LoopStep(BuilderLocalANodes,
              CX(BuilderLocalANodes[b_k + 1], BuilderAncLocal),
              IF b_variant = "DualAncilla" THEN "measure" ELSE "cx_localB")

\* control only: for q in loc_b_nodes: qc.cx(q, 8)
BuildCXLocalB ==
  /\ b_pc = "cx_localB"
  /\ LoopStep(BuilderLocalBNodes, CX(BuilderLocalBNodes[b_k + 1], 8),
              "measure")

\* b3: for i in range(8): qc.measure(i, i)
BuildMeasureB3 ==
  /\ b_pc = "measure" /\ b_variant = "DualAncilla"
  /\ LoopStep([k \in 1..8 |-> k - 1], Measure(b_k, b_k), "done")

\* control: qc.measure(range(9), range(9)), one call
BuildMeasureControl ==
  /\ b_pc = "measure" /\ b_variant = "TripleAncilla"
  /\ qc' = qc \o MeasureAll(9)
  /\ b_pc' = "done"
  /\ UNCHANGED <<b_variant, b_label, b_k>>

BuildNext ==
  \/ BuildH \/ BuildCXGlobal \/ BuildCXLocalA \/ BuildCXLocalB
  \/ BuildMeasureB3 \/ BuildMeasureControl

InitBuild == BuildInit /\ CampIdle /\ AnIdle

NextBuild == BuildNext /\ UNCHANGED <<campVars, anVars>>

SpecBuild == InitBuild /\ [][NextBuild]_vars

\* The builder run step by step returns the program of the builder operator.
BuildStepsAgree ==
  b_pc = "done" => qc = Build(b_variant, b_label)

(***************************************************************************)
(* Properties of the campaign run (Spec)                                   *)
(***************************************************************************)
\* The (label, repetition) pairs in the order of the submission loops.
AllPairs ==
  [k \in 1..(Len(Labels) * REPETITIONS) |->
     <<Labels[((k - 1) \div REPETITIONS) + 1], ((k - 1) % REPETITIONS) + 1>>]

PairOf(r) == <<r.run_label, r.rep>>

\* The data rows this run has appended (the older row carries job id 0).
IsRunRow(ln) == ln.kind = "data" /\ ln.cells[3] # 0

RunRows == SelectSeq(ledger, IsRunRow)

RowJobIds ==
  LET rows == RunRows
  IN  [k \in 1..Len(rows) |-> rows[k].cells[3]]

RowsOf(job_id) ==
  Cardinality({k \in 1..Len(ledger) :
                 IsRunRow(ledger[k]) /\ ledger[k].cells[3] = job_id})

\* A collection iteration in which some step failed.
FailedStep(e) == ~e.waited \/ ~e.extracted \/ e.analysis # "returned"

\* C1: a failed submission of one (label, repetition) pair does not stop the
\* submission loop: the pairs are attempted in the order A,B,C,D x 1..N, the
\* loop stands at the next pair right after the failure, all pairs have been
\* attempted when the collection phase is reached, and the failed pair is
\* not in submitted_jobs, is never collected, and has no ledger row (every
\* row of the run carries the id of a recorded job).
C1_SubmitFailureIsolated ==
  /\ Len(attempts) <= Len(AllPairs)
  /\ \A k \in 1..Len(attempts) : PairOf(attempts[k]) = AllPairs[k]
  /\ pc \in {"collect", "done"} => Len(attempts) = Len(AllPairs)
  /\ \A j \in 1..Len(ledger) :
       IsRunRow(ledger[j]) =>
         \E i \in 1..Len(submitted_jobs) :
            submitted_jobs[i].job_id = ledger[j].cells[3]
  /\ \A k \in 1..Len(attempts) :
       attempts[k].outcome = "submit_failed" =>
         /\ k = Len(attempts) =>
              IF k < Len(AllPairs)
              THEN pc = "submit" /\ <<Labels[label_i], rep>> = AllPairs[k + 1]
              ELSE pc \in {"collect", "done"}
         /\ \A j \in 1..Len(submitted_jobs) :
              PairOf(submitted_jobs[j]) # PairOf(attempts[k])
         /\ \A j \in 1..Len(collected) :
              PairOf(collected[j]) # PairOf(attempts[k])

\* A finished run in which a submission failed and a later pair was
\* submitted, collected and given its ledger row.
C1_Witness ==
  /\ pc = "done"
  /\ \E k, j \in 1..Len(attempts) :
       /\ k < j
       /\ attempts[k].outcome = "submit_failed"
       /\ attempts[j].outcome = "submitted"
       /\ RowsOf(attempts[j].job_id) = 1

\* C2: in the collection phase a failed wait, a failed extraction or a failed
\* analysis of one job is caught: the entries are visited one after the
\* other, the loop stands at the next entry after each, the phase ends only
\* when all recorded jobs have been visited, the run never ends with an
\* exception once collection has begun, and the failed job has no ledger row.
C2_CollectFailureIsolated ==
  /\ Len(collected) <= Len(submitted_jobs)
  /\ pc = "collect" => coll_i = Len(collected) + 1
  /\ pc = "done" => Len(collected) = Len(submitted_jobs)
  /\ collected # <<>> => pc \in {"collect", "done"}
  /\ \A k \in 1..Len(collected) :
       FailedStep(collected[k]) => RowsOf(collected[k].job_id) = 0

\* A finished run with a failed wait, a raising analysis, and a later job
\* whose row was written.
C2_Witness ==
  /\ pc = "done"
  /\ \E k1, k2, j \in 1..Len(collected) :
       /\ k1 < j /\ k2 < j
       /\ ~collected[k1].waited
       /\ collected[k2].analysis = "raised"
       /\ RowsOf(collected[j].job_id) = 1

\* C3: at the end of a run the ledger holds exactly one data row for each
\* job whose submission, wait, extraction and analysis all succeeded (the
\* analyzer returned), none for any other job, and no job has two rows.
C3_OneRowPerAnalyzedJob ==
  pc = "done" =>
    /\ \A k \in 1..Len(collected) :
         RowsOf(collected[k].job_id) =
           IF /\ collected[k].waited /\ collected[k].extracted
              /\ collected[k].analysis \in {"returned", "returned_unpack_failed"}
           THEN 1 ELSE 0
    /\ \A j \in 1..Len(RunRows) :
         \E k \in 1..Len(collected) : collected[k].job_id = RowJobIds[j]

\* C5: the collection loop visits the recorded jobs in submission order,
\* whichever jobs the backend has finished first, and the rows of the run are
\* in the ledger in the order their jobs were submitted.
C5_CollectionInSubmissionOrder ==
  /\ \A k \in 1..Len(collected) :
       /\ k <= Len(submitted_jobs)
       /\ collected[k].job_id = submitted_jobs[k].job_id
  /\ LET ids == RowJobIds
         written == SelectSeq(submitted_jobs,
                              LAMBDA e : \E k \in 1..Len(ids) : ids[k] = e.job_id)
     IN  ids = [k \in 1..Len(written) |-> written[k].job_id]

\* A finished run in which the backend had finished a later job before an
\* earlier one, and both have their rows.
C5_Witness ==
  /\ pc = "done"
  /\ \E k, j \in 1..Len(collected) :
       /\ k < j
       /\ ~collected[k].done_before_wait /\ collected[j].done_before_wait
       /\ RowsOf(collected[k].job_id) = 1 /\ RowsOf(collected[j].job_id) = 1

\* A step taken in the collection phase or after it stays there and leaves
\* the submission log and the job records alone.
CollectionStays ==
  pc \in {"collect", "done"} =>
    (pc' \in {"collect", "done"} /\ attempts' = attempts
     /\ submitted_jobs' = submitted_jobs)

\* C6: submission phase, then collection phase, no way back: no result is
\* awaited and no row written before the last submission attempt, and once
\* the collection phase is reached nothing is built or submitted again.
C6_NoTransitionBack ==
  /\ [](collected # <<>> \/ RunRows # <<>> =>
          Len(attempts) = Len(AllPairs) /\ pc \in {"collect", "done"})
  /\ [][CollectionStays]_vars

\* A run in the collection phase with results awaited and a row written.
C6_Witness ==
  /\ pc = "collect" /\ Len(collected) >= 2 /\ RunRows # <<>>
  /\ coll_i <= Len(submitted_jobs)

\* C7: a run that got past startup ends with every pair attempted exactly
\* once in the order A,B,C,D x 1..N and every recorded job awaited exactly
\* once.
C7_EveryPairAttemptedOnce ==
  (pc = "done" \/ (pc = "crashed" /\ attempts # <<>>)) =>
    /\ [k \in 1..Len(attempts) |-> PairOf(attempts[k])] = AllPairs
    /\ \A j \in 1..Len(submitted_jobs) :
         Cardinality({k \in 1..Len(collected) :
                        collected[k].job_id = submitted_jobs[j].job_id}) = 1

\* C14: every data row in the ledger of a DualAncilla campaign shows 0.00
\* (no hundredths) in the local_B column and in the asymmetry column,
\* whatever distribution the job returned.
C14_DualRowsLiteralZero ==
  variant = "DualAncilla" =>
    \A k \in 1..Len(ledger) :
       ledger[k].kind = "data" =>
         ledger[k].cells[6] = 0 /\ ledger[k].cells[7] = 0

\* A finished DualAncilla campaign has written a row whose global and
\* local-A columns are not 0.00, and a row of another distribution.
C14_Witness ==
  /\ variant = "DualAncilla" /\ pc = "done"
  /\ \E j, k \in 1..Len(ledger) :
       /\ IsRunRow(ledger[j]) /\ IsRunRow(ledger[k])
       /\ ledger[j].cells[4] # 0 /\ ledger[j].cells[5] # 0
       /\ ledger[k].cells[5] # ledger[j].cells[5]

\* Nothing of a campaign has taken place: no circuit built, optimized or
\* submitted, no result awaited, no data row of this run in the ledger.
NothingRun ==
  /\ attempts = <<>> /\ submitted_jobs = <<>> /\ collected = <<>>
  /\ \A k \in 1..Len(ledger) : ~IsRunRow(ledger[k])

\* A step in which startup fails ends the run with the ledger untouched, and
\* a run that has ended takes no further step.
StartupFailureEnds ==
  /\ (pc = "startup" /\ faults' > faults) =>
       /\ pc' \in {"aborted", "crashed"}
       /\ ledger' = ledger /\ attempts' = <<>> /\ submitted_jobs' = <<>>
       /\ collected' = <<>>
  /\ pc \in {"aborted", "crashed"} => campVars' = campVars

\* C17: a startup failure (no connection, no backend) is fatal with no
\* partial run: the run ends in the step that fails, nothing has been built,
\* optimized, submitted or awaited before it, the ledger is left as it was
\* with no data row of this run, and nothing happens after it.
C17_StartupFailureFatal ==
  /\ [](pc = "startup" \/ pc = "aborted" => NothingRun)
  /\ [][StartupFailureEnds]_vars

\* The run has ended at startup on a failed connection, the ledger of an
\* earlier campaign still as it was.
C17_Witness ==
  /\ pc = "aborted" /\ faults = 1
  /\ ledger = <<HeaderLine, OldRow>>

\* C18: in the submission phase the loop sleeps in the iteration of every
\* successful submission, after the job is recorded and so before the next
\* pair is attempted, and in no iteration whose submission failed; every
\* recorded job belongs to an iteration that slept.
C18_DelayAfterEachSubmission ==
  /\ \A k \in 1..Len(attempts) :
       attempts[k].slept <=> attempts[k].outcome = "submitted"
  /\ \A j \in 1..Len(submitted_jobs) :
       \E k \in 1..Len(attempts) :
          /\ attempts[k].job_id = submitted_jobs[j].job_id
          /\ attempts[k].slept

\* A submission that succeeded, then one that failed, then one that
\* succeeded.
C18_Witness ==
  \E k \in 1..Len(attempts) :
     /\ k + 2 <= Len(attempts)
     /\ attempts[k].outcome = "submitted" /\ attempts[k].slept
     /\ attempts[k + 1].outcome = "submit_failed" /\ ~attempts[k + 1].slept
     /\ attempts[k + 2].outcome = "submitted" /\ attempts[k + 2].slept

\* C19: a failure of circuit construction or of the optimization step for
\* one pair is caught like a failure of the submission itself: after it the
\* submission loop stands at the next pair, or the collection phase runs; the
\* run never ends with the exception.
C19_HandOffFailureCaught ==
  \A k \in 1..Len(attempts) :
     attempts[k].outcome \in {"transpile_failed", "submit_failed"} =>
       /\ pc \in {"submit", "collect", "done"}
       /\ k = Len(attempts) /\ k < Len(AllPairs) =>
            <<Labels[label_i], rep>> = AllPairs[k + 1]

(***************************************************************************)
(* Properties of the analyzer (SpecAnalyze)                                *)
(***************************************************************************)
\* C4: a distribution whose counts sum to 0 gives a record of the shape of
\* the non-zero case (as many fields as the caller unpacks), every field 0,
\* and neither the analyzer nor the unpacking of its result raises.
C4_ZeroTotalAllZero ==
  an_pc \in {"returned", "raised"} /\ total = 0 =>
    /\ ~an_result.raised
    /\ Len(an_result.value) = UnpackTargets(an_variant)
    /\ ~UnpackRaises(an_variant, an_result.value)
    /\ \A k \in 1..Len(an_result.value) : IsZero(an_result.value[k])

\* C8 as claimed: {"000000000": 4096, "111111000": 4096} gives global,
\* local-A and local-B stability 1.0 in the TripleAncilla analyzer.
C8_Scenario2AsPrinted ==
  /\ an_variant = "TripleAncilla" /\ counts = Scenario2(an_variant)
  /\ an_pc = "returned"
  => /\ IsOne(an_result.value[1])
     /\ IsOne(an_result.value[2])
     /\ IsOne(an_result.value[3])

\* C8 amended: for {"000000000": 4096, "111111000": 4096} (the second string
\* reversed has qubits 3..8 one, qubits 0..2 zero) the TripleAncilla analyzer
\* returns global stability 1.0, one local stability 1.0 and the other 0.5
\* (local-A 0.5 for topologies A and C, local-B 0.5 for B and D), asymmetry
\* 0.5; and for the outcome with qubits 0..5 one and qubits 6..8 zero
\* ("000111111") global stability 1.0, both local stabilities 0.5,
\* asymmetry 0: three ones have odd parity.
C8_Scenario2 ==
  an_variant = "TripleAncilla" /\ an_pc \in {"returned", "raised"} =>
    /\ counts = Scenario2(an_variant) =>
         /\ ~an_result.raised
         /\ an_result.value[1] = Ratio(8192, 8192)
         /\ an_result.value[2] =
              IF an_label \in {"A", "C"} THEN Ratio(4096, 8192)
              ELSE Ratio(8192, 8192)
         /\ an_result.value[3] =
              IF an_label \in {"A", "C"} THEN Ratio(8192, 8192)
              ELSE Ratio(4096, 8192)
         /\ an_result.value[4] = Ratio(4096, 8192)
    /\ counts = Scenario2DataOnes(an_variant) =>
         /\ ~an_result.raised
         /\ an_result.value[1] = Ratio(8192, 8192)
         /\ an_result.value[2] = Ratio(4096, 8192)
         /\ an_result.value[3] = Ratio(4096, 8192)
         /\ IsZero(an_result.value[4])

\* The analyzer has returned on the Scenario 2 distribution.
C8_Witness ==
  /\ an_variant = "TripleAncilla" /\ an_pc = "returned" /\ an_label = "D"
  /\ counts = Scenario2(an_variant)
  /\ an_i = 2 /\ global_ok = 8192

\* The other value of a bit character.
FlipChar(ch) == IF ch = "1" THEN "0" ELSE "1"

\* The string key that differs from the normalised key only in qubit q, the
\* character at raw position w-1-q.
FlippedKey(state, w, q) ==
  LET bits == Bits(state, w)
  IN  StrKey([k \in 1..Len(bits) |->
                IF k = Len(bits) - q THEN FlipChar(bits[k]) ELSE bits[k]])

\* The distribution with the key of its k-th outcome replaced, count kept.
ReplaceOutcome(cnts, k, state) == [cnts EXCEPT ![k].state = state]

\* C11 (Scenario 3): in a call that returned on a distribution with
\* total > 0, replacing any one outcome of count c whose bit 6 agrees with the
\* global data parity by the outcome differing only in bit 6 gives a global
\* agreement count lower by exactly c over the same total, and the same
\* local-A stability and (TripleAncilla) local-B stability.
C11_GlobalFlipLowersOnlyGlobal ==
  an_pc = "returned" /\ total > 0 =>
    \A k \in 1..Len(counts) :
      LET w == Width(an_variant)
          o == counts[k]
          other == FlippedKey(o.state, w, 6)
          flipped == Analyze(an_variant, an_label,
                             ReplaceOutcome(counts, k, other))
      IN  /\ Agrees(BitsRev(o.state, w), AnGroups[1].nodes, 6)
          /\ \A j \in 1..Len(counts) : counts[j].state # other
          => /\ ~flipped.raised
             /\ flipped.value[1] = Ratio(global_ok - o.c, total)
             /\ flipped.value[2] = an_result.value[2]
             /\ an_variant = "TripleAncilla" =>
                  flipped.value[3] = an_result.value[3]

\* A TripleAncilla call has returned on two outcomes of positive count that
\* both agree globally, one of them disagreeing with a local check.
C11_Witness ==
  /\ an_pc = "returned" /\ an_variant = "TripleAncilla" /\ Len(counts) = 2
  /\ counts[1].c > 0 /\ counts[2].c > 0
  /\ global_ok = total /\ localA_ok < total

\* The character of qubit i read straight from the un-reversed string: raw
\* position w-1-i counted from 0.
RawChar(state, w, i) == Bits(state, w)[w - i]

RawParity(state, w, nodes) ==
  Cardinality({k \in 1..Len(nodes) : RawChar(state, w, nodes[k]) = "1"}) % 2

RawAgrees(state, w, group) ==
  BitValue(RawChar(state, w, group.anc)) = RawParity(state, w, group.nodes)

\* The key normalises to a string of the register width.
HasWidth(state, w) == Len(Bits(state, w)) = w

\* Agreement count of a group over the first n outcomes, by raw positions.
RECURSIVE RawOk(_, _, _, _)
RawOk(cnts, n, w, group) ==
  IF n = 0 THEN 0
  ELSE (IF RawAgrees(cnts[n].state, w, group) THEN cnts[n].c ELSE 0)
       + RawOk(cnts, n - 1, w, group)

\* C12 (bit reversal): for every outcome key of the register width w, the
\* character the analyzer reads for qubit i in the reversed string is the
\* character at raw position w-1-i, the parity and the ancilla bit of every
\* group read through the reversed string equal those read by raw positions,
\* and the agreement counts the call has accumulated equal those counted by
\* raw positions.
C12_BitReversal ==
  LET w == Width(an_variant)
  IN  an_pc \in {"loop", "returned"} =>
        /\ \A k \in 1..Len(counts) :
             HasWidth(counts[k].state, w) =>
               LET rev == BitsRev(counts[k].state, w)
               IN  /\ \A i \in 0..(w - 1) :
                        rev[i + 1] = RawChar(counts[k].state, w, i)
                   /\ \A g \in 1..Len(AnGroups) :
                        /\ Parity(rev, AnGroups[g].nodes)
                             = RawParity(counts[k].state, w, AnGroups[g].nodes)
                        /\ BitValue(rev[AnGroups[g].anc + 1])
                             = BitValue(RawChar(counts[k].state, w,
                                                AnGroups[g].anc))
        /\ (total > 0 /\ \A k \in 1..an_i : HasWidth(counts[k].state, w)) =>
             /\ global_ok = RawOk(counts, an_i, w, AnGroups[1])
             /\ localA_ok = RawOk(counts, an_i, w, AnGroups[2])
             /\ an_variant = "TripleAncilla" =>
                  localB_ok = RawOk(counts, an_i, w, AnGroups[3])

\* A call has returned on an int key and a string key whose strings are not
\* palindromes, both counted.
C12_Witness ==
  /\ an_pc = "returned" /\ Len(counts) = 2
  /\ counts[1].state = IntKey(193) /\ counts[1].c > 0
  /\ counts[2].state = HighOnesKey(an_variant) /\ counts[2].c > 0
  /\ an_label = "B"

\* C13: for every distribution with total > 0 the TripleAncilla analyzer
\* returns local-A stability localA_ok/total, local-B stability
\* localB_ok/total and asymmetry |localA_ok - localB_ok|/total, their
\* absolute difference; the DualAncilla analyzer, which has no local-B,
\* returns global and local-A stability only, and the asymmetry reported for
\* its result in the ledger row is 0.00.
C13_AsymmetryIsAbsDifference ==
  an_pc = "returned" /\ total > 0 =>
    IF an_variant = "TripleAncilla"
    THEN /\ an_result.value[2] = [num |-> localA_ok, den |-> total]
         /\ an_result.value[3] = [num |-> localB_ok, den |-> total]
         /\ an_result.value[4] =
              [num |-> IF localA_ok >= localB_ok THEN localA_ok - localB_ok
                       ELSE localB_ok - localA_ok,
               den |-> total]
    ELSE /\ Len(an_result.value) = 2
         /\ ~UnpackRaises(an_variant, an_result.value)
         /\ Row(an_variant, an_label, 1, an_result.value).cells[7] = 0

\* A TripleAncilla call has returned with local-A agreeing less often than
\* local-B.
C13_Witness ==
  /\ an_pc = "returned" /\ an_variant = "TripleAncilla" /\ total > 0
  /\ 0 < localA_ok /\ localA_ok < localB_ok

\* Sum of the counts of the first n outcomes.
RECURSIVE SeenSoFar(_, _)
SeenSoFar(cnts, n) == IF n = 0 THEN 0 ELSE cnts[n].c + SeenSoFar(cnts, n - 1)

\* C15: for a distribution of non-negative counts with total > 0, after each
\* outcome processed and at the end every agreement count lies between 0 and
\* the counts seen so far, hence between 0 and total, and every stability
\* returned is a ratio num/total with 0 <= num <= total.
C15_OkWithinTotal ==
  an_pc \in {"loop", "returned"} /\ total > 0 =>
    /\ SeenSoFar(counts, an_i) <= total
    /\ \A ok \in {global_ok, localA_ok, localB_ok} :
         0 <= ok /\ ok <= SeenSoFar(counts, an_i) /\ ok <= total
    /\ an_pc = "returned" =>
         \A g \in 1..(IF an_variant = "TripleAncilla" THEN 3 ELSE 2) :
            /\ an_result.value[g].den = total
            /\ 0 <= an_result.value[g].num
            /\ an_result.value[g].num <= total

\* A call stands between two outcomes of positive count with a global
\* agreement count strictly between 0 and total.
C15_Witness ==
  /\ an_pc = "loop" /\ an_i = 1 /\ Len(counts) = 2
  /\ counts[2].c > 0
  /\ 0 < global_ok /\ global_ok < total /\ localA_ok = 0

\* C16: when every outcome of a distribution with total > 0 has the ancilla
\* bit of a group equal to the parity of the group's data bits, the group's
\* agreement count is total and its stability is total/total, exactly 1.0;
\* and for the single width-9 outcome "000000000" with count 8192
\* (Scenario 1) global, local-A and local-B stability are 1.0 and the
\* asymmetry is 0.
C16_AllAgreeGivesOne ==
  LET w == Width(an_variant)
      oks == <<global_ok, localA_ok, localB_ok>>
  IN  an_pc = "returned" /\ total > 0 =>
        /\ \A g \in 1..Len(AnGroups) :
             (\A k \in 1..Len(counts) :
                 /\ HasWidth(counts[k].state, w)
                 /\ RawAgrees(counts[k].state, w, AnGroups[g]))
             => /\ oks[g] = total
                /\ an_result.value[g] = [num |-> total, den |-> total]
        /\ (an_variant = "TripleAncilla"
            /\ counts = <<[state |-> StrKey(<<"0", "0", "0", "0", "0", "0",
                                             "0", "0", "0">>),
                           c |-> 8192]>>)
           => /\ an_result.value[1] = [num |-> 8192, den |-> 8192]
              /\ an_result.value[2] = [num |-> 8192, den |-> 8192]
              /\ an_result.value[3] = [num |-> 8192, den |-> 8192]
              /\ an_result.value[4].num = 0

\* The TripleAncilla analyzer has returned on the Scenario 1 distribution.
C16_Witness ==
  /\ an_pc = "returned" /\ an_variant = "TripleAncilla" /\ an_label = "C"
  /\ counts = Scenario1(an_variant)
  /\ total = 8192 /\ an_i = 1

\* A call has returned on two counted outcomes, one with data bits set, that
\* all agree with the global check.
C16_WitnessGeneral ==
  /\ an_pc = "returned" /\ Len(counts) = 2
  /\ counts[1].c > 0 /\ counts[2].c > 0
  /\ counts[2].state = DataOnesKey(an_variant)
  /\ global_ok = total

(***************************************************************************)
(* Properties of the circuit builders (SpecBuild)                          *)
(***************************************************************************)
\* The controlled-NOTs emitted so far, in order.
CXPart == SelectSeq(qc, LAMBDA op : op.gate = "cx")

\* One controlled-NOT (member, anc) per member of a group, in its order.
PairsOf(members, anc) ==
  [k \in 1..Len(members) |->
     [gate |-> "cx", qubits |-> <<members[k], anc>>, clbits |-> <<>>]]

IsPrefix(s, t) == Len(s) <= Len(t) /\ s = SubSeq(t, 1, Len(s))

\* Hadamards first, then controlled-NOTs, then measurements.
Layered ==
  \A j, k \in 1..Len(qc) :
    j < k =>
      /\ qc[j].gate = "cx" => qc[k].gate # "h"
      /\ qc[j].gate = "measure" => qc[k].gate = "measure"

\* The controlled-NOTs as C9 states them: global group in the topology's own
\* order, then local-A, then local-B in the TripleAncilla variant.
ClaimedCX(v, label) ==
  PairsOf(TOPOLOGIES[label].ghz_indices, 6)
  \o PairsOf(TOPOLOGIES[label].local_a_indices, 7)
  \o (IF v = "TripleAncilla"
      THEN PairsOf(TOPOLOGIES[label].local_b_indices, 8) ELSE <<>>)

\* C9 as claimed: in both variants the builder emits (g, 6) for the global
\* group in the topology's own sequence order, then (a, 7) for local-A, then
\* (b, 8) for local-B in the TripleAncilla variant, and nothing else between
\* the Hadamards and the measurement.
C9_GroupOrderAsClaimed ==
  /\ Layered
  /\ IsPrefix(CXPart, ClaimedCX(b_variant, b_label))
  /\ b_pc \in {"measure", "done"} => CXPart = ClaimedCX(b_variant, b_label)

\* The global group as the DualAncilla builder is handed it: the local-A
\* members first, then the other members in the topology's order.
LocalAFirst(label) ==
  TOPOLOGIES[label].local_a_indices
  \o SelectSeq(TOPOLOGIES[label].ghz_indices,
               LAMBDA g : \A k \in 1..Len(TOPOLOGIES[label].local_a_indices) :
                             TOPOLOGIES[label].local_a_indices[k] # g)

AmendedCX(v, label) ==
  IF v = "TripleAncilla" THEN ClaimedCX(v, label)
  ELSE PairsOf(LocalAFirst(label), 6)
       \o PairsOf(TOPOLOGIES[label].local_a_indices, 7)

\* C9 amended: the TripleAncilla builder emits the controlled-NOTs as
\* claimed; the DualAncilla builder emits the global group's (g, 6) with the
\* local-A members first and the remaining members after them (the
\* topology's own order for A, B and C; 0,2,4,1,3,5 for D), then (a, 7) for
\* local-A in its order; nothing else between Hadamards and measurement.
C9_GroupOrder ==
  /\ Layered
  /\ IsPrefix(CXPart, AmendedCX(b_variant, b_label))
  /\ b_pc \in {"measure", "done"} => CXPart = AmendedCX(b_variant, b_label)

\* The DualAncilla builder has finished the circuit of topology D.
C9_Witness ==
  /\ b_pc = "done" /\ b_variant = "DualAncilla" /\ b_label = "D"
  /\ Len(CXPart) = 9

\* Number of Hadamards on qubit q so far.
HCount(q) ==
  Cardinality({k \in 1..Len(qc) : qc[k].gate = "h" /\ qc[k].qubits = <<q>>})

\* C10: no operation couples two data qubits: every controlled-NOT goes from
\* a data qubit 0..5 to an ancilla (6, 7, and 8 in the TripleAncilla variant),
\* and Hadamard is applied exactly once to each data qubit, to no ancilla.
C10_NoDataCoupling ==
  /\ \A k \in 1..Len(qc) :
       /\ qc[k].gate = "cx" =>
            /\ qc[k].qubits[1] \in 0..5
            /\ qc[k].qubits[2] \in
                 (IF b_variant = "TripleAncilla" THEN {6, 7, 8} ELSE {6, 7})
       /\ qc[k].gate = "h" => qc[k].qubits[1] \in 0..5
  /\ \A q \in 0..5 : HCount(q) <= 1
  /\ b_pc # "h" => \A q \in 0..5 : HCount(q) = 1

\* The TripleAncilla builder has finished a circuit with all its
\* controlled-NOTs.
C10_Witness ==
  /\ b_pc = "done" /\ b_variant = "TripleAncilla" /\ b_label = "B"
  /\ Len(CXPart) = 12

(***************************************************************************)
(* Properties of the ledger file (Spec)                                    *)
(***************************************************************************)
\* A step leaves the lines of the ledger in place and adds at most one line
\* at the end; a header is added only to a file that did not exist; the file
\* is never removed.
LedgerAppendOnly ==
  /\ IsPrefix(ledger, ledger')
  /\ Len(ledger') <= Len(ledger) + 1
  /\ (Len(ledger') > Len(ledger) /\ ledger'[Len(ledger')].kind = "header") =>
       ~ledger_exists /\ ledger = <<>>
  /\ ledger_exists => ledger_exists'

\* C20: the ledger is append-only across a run: no line present is modified,
\* removed or truncated; the header is written only when the file is absent,
\* so at most once, and it is the first line, before every data row; once
\* startup is over the file exists and begins with the header.
C20_LedgerAppendOnly ==
  /\ [][LedgerAppendOnly]_vars
  /\ [](/\ \A k \in 1..Len(ledger) : ledger[k].kind = "header" <=> k = 1
        /\ ledger # <<>> => ledger_exists
        /\ pc \in {"submit", "collect", "done"} =>
             ledger_exists /\ ledger # <<>> /\ ledger[1] = HeaderLine)

\* A finished run that found the ledger of an earlier campaign and appended
\* two rows to it.
C20_Witness ==
  /\ pc = "done" /\ Len(ledger) >= 4
  /\ ledger[1] = HeaderLine /\ ledger[2] = OldRow
  /\ IsRunRow(ledger[3]) /\ IsRunRow(ledger[4])

\* A finished run that found no ledger file, wrote the header and a row.
C20_WitnessNewFile ==
  /\ pc = "done" /\ Len(ledger) >= 2
  /\ ledger[1] = HeaderLine /\ IsRunRow(ledger[2])

(***************************************************************************)
(* Agreement of builder and analyzer in the DualAncilla campaign (Spec)    *)
(***************************************************************************)
\* The controls of the controlled-NOTs of a program onto one ancilla, in
\* program order.
ControlsOnto(prog, anc) ==
  LET cxs == SelectSeq(prog, LAMBDA op : op.gate = "cx" /\ op.qubits[2] = anc)
  IN  [k \in 1..Len(cxs) |-> cxs[k].qubits[1]]

\* The topology maps a DualAncilla campaign makes, one per label.
DualMaps == {TopologyMap(TOPOLOGIES[l]) : l \in Range(Labels)}

\* For each topology map: the qubits the builder wires to ancilla 6 and to
\* ancilla 7, and the positions the analyzer checks against bit 6 and bit 7.
DualWiring ==
  [tm \in DualMaps |->
     LET prog == classical_control_circuit(tm)
         groups == GroupsB3(tm.data, tm.anc_global, tm.anc_local)
     IN  [wired6 |-> ControlsOnto(prog, 6),
          wired7 |-> ControlsOnto(prog, 7),
          checked6 |-> groups[1].nodes, anc6 |-> groups[1].anc,
          checked7 |-> groups[2].nodes, anc7 |-> groups[2].anc]]

\* A sequence lists exactly the members of a group, each once.
ExactlyOnce(members, group) ==
  Len(members) = Len(group) /\ Range(members) = Range(group)
  /\ Cardinality(Range(members)) = Len(members)

\* The job records present stay as they are.
RecordsKept ==
  /\ Len(submitted_jobs') >= Len(submitted_jobs)
  /\ \A k \in 1..Len(submitted_jobs) : submitted_jobs'[k] = submitted_jobs[k]

\* C21: in a DualAncilla campaign every job record holds the topology map
\* its circuit was built from; for that map the builder wires to ancilla 7
\* exactly the three members of the topology's local-A group and the
\* analyzer checks exactly those positions against bit 7, the builder wires
\* to ancilla 6 and the analyzer checks against bit 6 exactly the six members
\* of the global group, each once; the entry being collected holds that same
\* map, and no record changes once it is made.
C21_BuilderAnalyzerAgree ==
  /\ [](variant = "DualAncilla" =>
          \A k \in 1..Len(submitted_jobs) :
             LET e == submitted_jobs[k]
                 topo == TOPOLOGIES[e.run_label]
             IN  /\ e.topology_map = BuilderInput("DualAncilla", e.run_label)
                 /\ e.topology_map \in DualMaps
                 /\ LET wiring == DualWiring[e.topology_map]
                    IN  /\ wiring.anc6 = 6 /\ wiring.anc7 = 7
                        /\ ExactlyOnce(wiring.wired7, topo.local_a_indices)
                        /\ ExactlyOnce(wiring.checked7, topo.local_a_indices)
                        /\ ExactlyOnce(wiring.wired6, topo.ghz_indices)
                        /\ ExactlyOnce(wiring.checked6, topo.ghz_indices)
                        /\ Len(wiring.wired6) = 6 /\ Len(wiring.wired7) = 3)
  /\ [][RecordsKept]_vars

\* A DualAncilla campaign has submitted a job of topology D and analyzed it
\* in the collection phase.
C21_Witness ==
  /\ variant = "DualAncilla" /\ pc = "collect"
  /\ \E k \in 1..Len(collected) :
       /\ collected[k].run_label = "D" /\ collected[k].analysis = "returned"
       /\ submitted_jobs[k].run_label = "D"
       /\ submitted_jobs[k].topology_map.data = <<0, 2, 4, 1, 3, 5>>

====
